---- MODULE Spec2Model ----
(***************************************************************************)
(* Model of src/app.py: a Flask front-end that logs a user in through     *)
(* OAuth2 against SUAP and shows profile and grade-report ("boletim")     *)
(* data.  Three specifications share the definitions below:               *)
(*   SpecClient  make_suap_request applied to a session and an upstream   *)
(*               outcome;                                                  *)
(*   SpecNorm    fetch_boletim applied to an upstream outcome;            *)
(*   Spec        the routes, handled one request at a time on one         *)
(*               browser session.                                         *)
(***************************************************************************)
EXTENDS Integers, Sequences, FiniteSets

VARIABLES
    session,   \* Flask session: the value under "token", or NoToken
    lastEvent, \* history: the last handler that wrote or removed the token
    req,       \* the request handled last and its outcome
    cIn,       \* SpecClient: the session and the upstream outcome of the call
    cOut,      \* SpecClient: what make_suap_request did
    nIn,       \* SpecNorm: the upstream outcome of fetch_boletim's call
    nOut       \* SpecNorm: what fetch_boletim did

vars == <<session, lastEvent, req, cIn, cOut, nIn, nOut>>

(***************************************************************************)
(* JSON values as Python sees them after response.json().                 *)
(***************************************************************************)
JNull == [t |-> "null"]
JInt(n) == [t |-> "int", n |-> n]
\* a float, kept in tenths: JFloat(75) is 7.5
JFloat(tenths) == [t |-> "float", n |-> tenths]
JStr(s) == [t |-> "str", s |-> s]
\* a JSON object: d is the function from the keys it holds to their values
JObj(d) == [t |-> "obj", d |-> d]
JList(items) == [t |-> "list", items |-> items]
\* the dict with no key
EmptyDict == [k \in {} |-> JNull]

\* Python truthiness, as `or` and `if` use it
Truthy(v) ==
    CASE v.t = "null" -> FALSE
      [] v.t = "int" -> v.n # 0
      [] v.t = "float" -> v.n # 0
      [] v.t = "str" -> v.s # ""
      [] v.t = "obj" -> DOMAIN v.d # {}
      [] v.t = "list" -> v.items # <<>>

\* a or b
PyOr(a, b) == IF Truthy(a) THEN a ELSE b

\* d.get(k): None when the key is missing
Get(d, k) == IF k \in DOMAIN d THEN d[k] ELSE JNull

\* the strings of the model that int() parses, with their values
NumericStrings == {"40", "7"}

StrValue(s) == CASE s = "40" -> 40 [] s = "7" -> 7 [] OTHER -> 0

Trunc(tenths) == IF tenths >= 0 THEN tenths \div 10 ELSE -((-tenths) \div 10)

\* int(v): ValueError on a string that is no integer literal, TypeError on
\* None and on a dict
PyInt(v) ==
    CASE v.t = "int" -> [raised |-> FALSE, n |-> v.n]
      [] v.t = "float" -> [raised |-> FALSE, n |-> Trunc(v.n)]
      [] v.t = "str" -> IF v.s \in NumericStrings
                        THEN [raised |-> FALSE, n |-> StrValue(v.s)]
                        ELSE [raised |-> TRUE, n |-> 0]
      [] OTHER -> [raised |-> TRUE, n |-> 0]

\* int(x) if x else 0
IntOrZero(x) == IF Truthy(x) THEN PyInt(x) ELSE [raised |-> FALSE, n |-> 0]

(***************************************************************************)
(* fetch_boletim: the normalization of one grade record (lines 78-108).   *)
(***************************************************************************)
Fields ==
    {"carga_horaria", "carga_horaria_total", "numero_faltas", "faltas",
     "carga_horaria_cumprida", "quantidade_aulas", "total_aulas",
     "nota_etapa_1", "nota_etapa_2", "nota_etapa_3", "nota_etapa_4",
     "media_final", "media_final_disciplina", "situacao"}

NotaField(i) ==
    CASE i = 1 -> "nota_etapa_1" [] i = 2 -> "nota_etapa_2"
      [] i = 3 -> "nota_etapa_3" [] i = 4 -> "nota_etapa_4"

\* f"{i}º Bimestre"
EtapaLabel(i) == <<i, "Bimestre">>

CargaHoraria(d) == PyOr(Get(d, "carga_horaria"), Get(d, "carga_horaria_total"))

Faltas(d) == PyOr(Get(d, "numero_faltas"), Get(d, "faltas"))

TotalAulasDadas(d) ==
    PyOr(PyOr(Get(d, "carga_horaria_cumprida"), Get(d, "quantidade_aulas")),
         Get(d, "total_aulas"))

\* NotaEntry with `else` for `elif nota is not None`: absent stages padded
NotaEntryPadded(d, i) ==
    LET nota == Get(d, NotaField(i))
    IN  IF nota.t = "obj" /\ "nota" \in DOMAIN nota.d
        THEN <<[etapa |-> EtapaLabel(i), nota |-> nota.d["nota"]]>>
        ELSE <<[etapa |-> EtapaLabel(i), nota |-> nota]>>

\* the entry that stage i appends to d["notas"], as a sequence of 0 or 1 entry
NotaEntry(d, i) ==
    LET nota == Get(d, NotaField(i))
    IN  IF nota.t = "obj" /\ "nota" \in DOMAIN nota.d
        THEN <<[etapa |-> EtapaLabel(i), nota |-> nota.d["nota"]]>>
        ELSE IF nota # JNull
             THEN <<[etapa |-> EtapaLabel(i), nota |-> nota]>>
             ELSE <<>>

Notas(d) == NotaEntry(d, 1) \o NotaEntry(d, 2) \o NotaEntry(d, 3) \o NotaEntry(d, 4)

MediaFinal(d) ==
    PyOr(PyOr(Get(d, "media_final"), Get(d, "media_final_disciplina")), JStr("-"))

Situacao(d) == PyOr(Get(d, "situacao"), JStr("Cursando"))

\* the body of the loop for one record d: rec holds the canonical fields it
\* sets (the other keys of d stay as they were), unless an int() raises
NormalizeRecord(d) ==
    LET ch == IntOrZero(CargaHoraria(d))
        fa == IntOrZero(Faltas(d))
        ta == IntOrZero(TotalAulasDadas(d))
    IN  IF ch.raised \/ fa.raised \/ ta.raised
        THEN [raised |-> TRUE, rec |-> EmptyDict]
        ELSE [raised |-> FALSE,
              rec |-> [carga_horaria_normalizada |-> ch.n,
                       faltas_normalizadas |-> fa.n,
                       total_aulas_dadas |-> ta.n,
                       notas |-> Notas(d),
                       media_final |-> MediaFinal(d),
                       situacao |-> Situacao(d)]]

(***************************************************************************)
(* Session and API client (lines 28-48).                                  *)
(***************************************************************************)
\* the session without a "token" key
NoToken == [id |-> 0, access_token |-> FALSE]

\* is_logged_in(): "token" in session
IsLoggedIn(sess) == sess # NoToken

\* what the upstream does with one GET: a 200 whose body parses, a 200 whose
\* body does not, another status, or an error of the transport
Outcome(kind, body) == [kind |-> kind, body |-> body]

Failures == {Outcome("badjson", JNull), Outcome("status", JNull),
             Outcome("transport", JNull)}

\* the endpoints: f"minhas-informacoes/boletim/{ano}/{periodo}/" and the rest
Endpoint(path, ano, periodo) == [path |-> path, ano |-> ano, periodo |-> periodo]

\* make_suap_request without its first two lines, the token read with
\* session.get: the GET leaves with no bearer (0) when no token is stored
MakeSuapRequestUnguarded(sess, endpoint, outcome) ==
    IF IsLoggedIn(sess) /\ ~sess.access_token
    THEN [raised |-> TRUE, val |-> JNull, gets |-> <<>>]
    ELSE LET get == <<[endpoint |-> endpoint, bearer |-> sess.id]>>
         IN  IF outcome.kind = "ok"
             THEN [raised |-> FALSE, val |-> outcome.body, gets |-> get]
             ELSE [raised |-> FALSE, val |-> JNull, gets |-> get]

\* make_suap_request(endpoint): val is what it returns (JNull is None), gets
\* the GETs it issued, raised whether an exception left it
MakeSuapRequest(sess, endpoint, outcome) ==
    IF ~IsLoggedIn(sess)
    THEN [raised |-> FALSE, val |-> JNull, gets |-> <<>>]
    ELSE IF ~sess.access_token
    THEN \* session['token']['access_token'] is outside the try: KeyError
         [raised |-> TRUE, val |-> JNull, gets |-> <<>>]
    ELSE LET get == <<[endpoint |-> endpoint, bearer |-> sess.id]>>
         IN  IF outcome.kind = "ok"
             THEN [raised |-> FALSE, val |-> outcome.body, gets |-> get]
             ELSE \* a status other than 200, or an exception inside the try
                  [raised |-> FALSE, val |-> JNull, gets |-> get]

(***************************************************************************)
(* fetch_boletim (lines 73-111).                                          *)
(***************************************************************************)
\* one pass of the loop: d.get on an element that is no dict raises
NormalizeItem(item) ==
    IF item.t = "obj"
    THEN NormalizeRecord(item.d)
    ELSE [raised |-> TRUE, rec |-> EmptyDict]

NormalizeAll(items) == [i \in 1..Len(items) |-> NormalizeItem(items[i])]

FetchBoletim(sess, ano, periodo, outcome) ==
    LET r == MakeSuapRequest(sess, Endpoint("boletim", ano, periodo), outcome)
    IN  IF r.raised
        THEN [raised |-> TRUE, val |-> <<>>, gets |-> r.gets]
        ELSE IF Truthy(r.val) /\ r.val.t = "list"
        THEN LET out == NormalizeAll(r.val.items)
             IN  IF \E i \in 1..Len(out) : out[i].raised
                 THEN [raised |-> TRUE, val |-> <<>>, gets |-> r.gets]
                 ELSE [raised |-> FALSE,
                       val |-> [i \in 1..Len(out) |-> out[i].rec],
                       gets |-> r.gets]
        ELSE [raised |-> FALSE, val |-> <<>>, gets |-> r.gets]

(***************************************************************************)
(* Inputs.                                                                *)
(***************************************************************************)
\* how many tokens the OAuth provider hands out
MaxTokens == 2

Tokens == [id : 1..MaxTokens, access_token : BOOLEAN]

Sessions == {NoToken} \cup Tokens

\* the values a field of a grade record takes
FieldValues ==
    {JNull, JInt(0), JInt(20), JFloat(0), JFloat(75),
     JStr(""), JStr("40"), JStr("N/A"),
     JObj(EmptyDict), JObj([nota |-> JInt(8)]), JObj([nota |-> JNull]),
     JObj([faltas |-> JInt(2)])}

\* how many of the candidate fields a grade record of SpecNorm holds
MaxPresent == 2

\* the sets of fields a grade record of SpecNorm holds
FieldSets == {T \in SUBSET Fields : Cardinality(T) <= MaxPresent}

\* the bodies of SpecNorm that are no list of grade records
NormBodies ==
    {JNull, JObj(EmptyDict), JObj([detail |-> JStr("x")]), JList(<<>>), JList(<<JInt(1)>>)}

NormOutcomes == Failures \cup {Outcome("ok", b) : b \in NormBodies}

ClientBodies == {JNull, JObj(EmptyDict), JObj([matricula |-> JStr("2023")]),
                 JList(<<>>), JList(<<JInt(1)>>), JInt(0), JStr("x")}

ClientOutcomes == Failures \cup {Outcome("ok", b) : b \in ClientBodies}

ClientEndpoints ==
    {Endpoint("meus-dados", 0, 0), Endpoint("meus-cursos", 0, 0),
     Endpoint("meus-periodos-letivos", 0, 0), Endpoint("boletim", 2024, 1)}

Pending == [state |-> "pending"]

Idle == [state |-> "idle"]

(***************************************************************************)
(* SpecClient: make_suap_request on every session and upstream outcome.   *)
(***************************************************************************)
ClientInit ==
    /\ cIn \in [sess : Sessions, endpoint : ClientEndpoints, outcome : ClientOutcomes]
    /\ cOut = Pending
    /\ session = NoToken /\ lastEvent = "none" /\ req = Idle
    /\ nIn = Idle /\ nOut = Idle

ClientCall ==
    /\ cOut = Pending
    /\ cOut' = [state |-> "done",
                res |-> MakeSuapRequest(cIn.sess, cIn.endpoint, cIn.outcome)]
    /\ UNCHANGED <<session, lastEvent, req, cIn, nIn, nOut>>

ClientNext == ClientCall

SpecClient == ClientInit /\ [][ClientNext]_vars

(***************************************************************************)
(* SpecNorm: fetch_boletim(2024, 1) on every upstream outcome, logged in. *)
(***************************************************************************)
NormInit ==
    /\ nIn = Pending
    /\ nOut = Pending
    /\ session = NoToken /\ lastEvent = "none" /\ req = Idle
    /\ cIn = Idle /\ cOut = Idle

NormApply(o) ==
    /\ nIn' = [state |-> "done", outcome |-> o]
    /\ nOut' = [state |-> "done",
                res |-> FetchBoletim([id |-> 1, access_token |-> TRUE], 2024, 1, o)]

\* the upstream answers with a failure, with a body that is no report, or
\* with the report of one grade record d
NormFetch ==
    /\ nOut = Pending
    /\ \/ \E o \in NormOutcomes : NormApply(o)
       \/ \E S \in FieldSets : \E d \in [S -> FieldValues] :
              NormApply(Outcome("ok", JList(<<JObj(d)>>)))
    /\ UNCHANGED <<session, lastEvent, req, cIn, cOut>>

NormNext == NormFetch

SpecNorm == NormInit /\ [][NormNext]_vars

(***************************************************************************)
(* fetch_user, fetch_student_data, fetch_periods (lines 50-71).           *)
(***************************************************************************)
\* foto.startswith("http"), on the strings of the model
StartsWithHttp(s) == s \in {"http://cdn/f.jpg"}

\* d.get(k, default): the default only when the key is missing
GetOr(d, k, default) == IF k \in DOMAIN d THEN d[k] ELSE default

\* d[k] = v
SetKey(d, k, v) == [x \in DOMAIN d \cup {k} |-> IF x = k THEN v ELSE d[x]]

\* the three assignments of fetch_user on the dict d, foto being a string or falsy
UserFields(d, foto) ==
    LET url == IF Truthy(foto) /\ ~StartsWithHttp(foto.s)
               THEN JStr("https://suap.ifrn.edu.br" \o foto.s)
               ELSE foto
        d1 == SetKey(d, "matricula", GetOr(d, "matricula", JStr("")))
        d2 == SetKey(d1, "url_foto", url)
    IN  SetKey(d2, "nome_completo",
               GetOr(d2, "nome_usual", GetOr(d2, "nome", JStr(""))))

FetchUser(sess, outcome) ==
    LET r == MakeSuapRequest(sess, Endpoint("meus-dados", 0, 0), outcome)
    IN  IF r.raised \/ ~Truthy(r.val)
        THEN r
        ELSE IF r.val.t # "obj"
        THEN \* user_data.get on a list, a string or a number: AttributeError
             [raised |-> TRUE, val |-> JNull, gets |-> r.gets]
        ELSE LET foto == GetOr(r.val.d, "url_foto_150x200", JStr(""))
             IN  IF Truthy(foto) /\ foto.t # "str"
                 THEN \* foto.startswith on a value that is no string
                      [raised |-> TRUE, val |-> JNull, gets |-> r.gets]
                 ELSE [raised |-> FALSE, val |-> JObj(UserFields(r.val.d, foto)),
                       gets |-> r.gets]

FetchStudentData(sess, outcome) ==
    LET r == MakeSuapRequest(sess, Endpoint("meus-cursos", 0, 0), outcome)
    IN  IF r.raised
        THEN r
        ELSE IF Truthy(r.val) /\ r.val.t = "list" /\ Len(r.val.items) > 0
        THEN [raised |-> FALSE, val |-> r.val.items[1], gets |-> r.gets]
        ELSE [raised |-> FALSE, val |-> JNull, gets |-> r.gets]

\* val is the Python list, as the sequence of its elements
FetchPeriods(sess, outcome) ==
    LET r == MakeSuapRequest(sess, Endpoint("meus-periodos-letivos", 0, 0), outcome)
    IN  IF r.raised
        THEN [raised |-> TRUE, val |-> <<>>, gets |-> r.gets]
        ELSE IF Truthy(r.val) /\ r.val.t = "list"
        THEN [raised |-> FALSE, val |-> r.val.items, gets |-> r.gets]
        ELSE [raised |-> FALSE, val |-> <<>>, gets |-> r.gets]

(***************************************************************************)
(* Routes (lines 114-195).  A handler's result: the response, the GETs    *)
(* issued while handling the request, and the template's context.         *)
(***************************************************************************)
NoContext == [page |-> "none"]

Redirect(target) ==
    [response |-> [kind |-> "redirect", target |-> target], gets |-> <<>>,
     ctx |-> NoContext]

\* an exception that no handler catches
Unhandled(gets) ==
    [response |-> [kind |-> "error", target |-> "exception"], gets |-> gets,
     ctx |-> NoContext]

\* inject_user, run by render_template
InjectUser(sess, outcome) ==
    IF IsLoggedIn(sess)
    THEN FetchUser(sess, outcome)
    ELSE [raised |-> FALSE, val |-> JNull, gets |-> <<>>]

\* render_template(page, **ctx), after gets were issued by the handler
Render(page, ctx, gets, sess, oInject) ==
    LET u == InjectUser(sess, oInject)
    IN  IF u.raised
        THEN Unhandled(gets \o u.gets)
        ELSE [response |-> [kind |-> "render", target |-> page],
              gets |-> gets \o u.gets,
              ctx |-> [page |-> page, user |-> u.val, vars |-> ctx]]

IndexResult(sess, oInject) ==
    IF IsLoggedIn(sess)
    THEN Redirect("perfil")
    ELSE Render("index.html", [none |-> TRUE], <<>>, sess, oInject)

\* suap.authorize_redirect: to the provider's authorize_url
LoginResult == Redirect("suap_authorize")

\* AuthorizeSession with the session cleared in the except branch
AuthorizeSessionClearing(sess, ok, tok) == IF ok THEN tok ELSE NoToken

\* session after /login/authorized: ok is whether authorize_access_token
\* returned the token tok instead of raising
AuthorizeSession(sess, ok, tok) == IF ok THEN tok ELSE sess

AuthorizeResult(ok) == IF ok THEN Redirect("perfil") ELSE Redirect("index")

\* session.clear()
LogoutSession(sess) == NoToken

LogoutResult == Redirect("index")

\* PerfilResult without the is_logged_in check of lines 148-149
PerfilResultUngated(sess, oUser, oCursos, oInject) ==
    LET u == FetchUser(sess, oUser)
        c == FetchStudentData(sess, oCursos)
    IN  IF u.raised
        THEN Unhandled(u.gets)
        ELSE IF c.raised
        THEN Unhandled(u.gets \o c.gets)
        ELSE Render("perfil.html",
                    [user_data |-> u.val, student_data |-> c.val],
                    u.gets \o c.gets, sess, oInject)

PerfilResult(sess, oUser, oCursos, oInject) ==
    IF ~IsLoggedIn(sess)
    THEN Redirect("login")
    ELSE LET u == FetchUser(sess, oUser)
             c == FetchStudentData(sess, oCursos)
         IN  IF u.raised
             THEN Unhandled(u.gets)
             ELSE IF c.raised
             THEN Unhandled(u.gets \o c.gets)
             ELSE Render("perfil.html",
                         [user_data |-> u.val, student_data |-> c.val],
                         u.gets \o c.gets, sess, oInject)

\* date.today().year
CurrentYear == 2025

\* p['ano_letivo'] for each p: KeyError when the key is missing, TypeError
\* when p is no dict; the years are integers
HasAnoLetivo(p) == p.t = "obj" /\ "ano_letivo" \in DOMAIN p.d

AnosDisponiveis(periods) == {periods[i].d["ano_letivo"].n : i \in 1..Len(periods)}

\* FirstDescending without reverse=True
FirstAscending(S) == CHOOSE x \in S : \A y \in S : x <= y

\* sorted(list(set(...)), reverse=True)[0]
FirstDescending(S) == CHOOSE x \in S : \A y \in S : y <= x

\* lines 160-167: the year of the report, from the query argument ano
\* (request.args.get("ano", type=int): JNull when missing) and the periods
AnoSelecionado(ano, periods) ==
    IF Truthy(ano)
    THEN [raised |-> FALSE, n |-> ano.n]
    ELSE IF periods # <<>>
    THEN IF \A i \in 1..Len(periods) : HasAnoLetivo(periods[i])
         THEN [raised |-> FALSE, n |-> FirstDescending(AnosDisponiveis(periods))]
         ELSE [raised |-> TRUE, n |-> 0]
    ELSE [raised |-> FALSE, n |-> CurrentYear]

RECURSIVE SumField(_, _)
\* sum(d.get(field, 0) for d in records)
SumField(records, field) ==
    IF records = <<>>
    THEN 0
    ELSE GetOr(Head(records), field, 0) + SumField(Tail(records), field)

\* Frequencia with the absences for the classes attended
FrequenciaOfAbsences(total_aulas_dadas, total_faltas) ==
    IF total_aulas_dadas > 0
    THEN [num |-> total_faltas * 100, den |-> total_aulas_dadas]
    ELSE [num |-> 100, den |-> 1]

\* lines 182-184, as the fraction num/den
Frequencia(total_aulas_dadas, total_faltas) ==
    IF total_aulas_dadas > 0
    THEN [num |-> (total_aulas_dadas - total_faltas) * 100, den |-> total_aulas_dadas]
    ELSE [num |-> 100, den |-> 1]

\* lines 177-195
BoletimPage(sess, ano, periods, boletim_data, gets, oInject) ==
    LET total_ch == SumField(boletim_data, "carga_horaria_normalizada")
        total_aulas_dadas == SumField(boletim_data, "total_aulas_dadas")
        total_faltas == SumField(boletim_data, "faltas_normalizadas")
    IN  Render("boletim.html",
               [boletim |-> boletim_data, ano_selecionado |-> ano,
                periods |-> periods, total_ch |-> total_ch,
                total_aulas_dadas |-> total_aulas_dadas,
                total_faltas |-> total_faltas,
                frequencia |-> Frequencia(total_aulas_dadas, total_faltas)],
               gets, sess, oInject)

\* args are the query arguments; the handler reads only args.ano
BoletimResult(sess, args, oPeriods, oP1, oP2, oInject) ==
    IF ~IsLoggedIn(sess)
    THEN Redirect("login")
    ELSE LET p == FetchPeriods(sess, oPeriods)
             ano == AnoSelecionado(args.ano, p.val)
             b1 == FetchBoletim(sess, ano.n, 1, oP1)
             b2 == FetchBoletim(sess, ano.n, 2, oP2)
         IN  IF p.raised
             THEN Unhandled(p.gets)
             ELSE IF ano.raised
             THEN Unhandled(p.gets)
             ELSE IF b1.raised
             THEN Unhandled(p.gets \o b1.gets)
             ELSE IF b2.raised
             THEN Unhandled(p.gets \o b1.gets \o b2.gets)
             ELSE BoletimPage(sess, ano.n, p.val, b1.val \o b2.val,
                              p.gets \o b1.gets \o b2.gets, oInject)

(***************************************************************************)
(* Spec: the requests of one browser session, one at a time.  req holds   *)
(* the request being answered, from its handling to Reply.                *)
(***************************************************************************)
UserBodies ==
    {JObj([matricula |-> JStr("2023"), url_foto_150x200 |-> JStr("/media/f.jpg"),
           nome_usual |-> JStr("Ana"), nome |-> JStr("Ana Maria")]),
     JObj([nome |-> JStr("Ana Maria"), url_foto_150x200 |-> JStr("http://cdn/f.jpg")]),
     JList(<<JInt(1)>>)}

UserOutcomes == {Outcome("status", JNull)} \cup {Outcome("ok", b) : b \in UserBodies}

CursosOutcomes ==
    {Outcome("transport", JNull), Outcome("ok", JList(<<>>)),
     Outcome("ok", JList(<<JObj([curso |-> JStr("TADS")])>>)),
     Outcome("ok", JObj([detail |-> JStr("x")]))}

Period(ano, periodo) == JObj([ano_letivo |-> JInt(ano), periodo_letivo |-> JInt(periodo)])

PeriodsOutcomes ==
    {Outcome("status", JNull), Outcome("ok", JObj([detail |-> JStr("x")])),
     Outcome("ok", JList(<<>>)),
     Outcome("ok", JList(<<Period(2023, 1), Period(2023, 2), Period(2024, 1)>>)),
     Outcome("ok", JList(<<Period(2024, 2), Period(2023, 1)>>)),
     Outcome("ok", JList(<<JObj([periodo_letivo |-> JInt(1)])>>))}

\* the grade records of the routes' reports
RouteRecords ==
    {JObj([carga_horaria |-> JInt(60), numero_faltas |-> JInt(5),
           carga_horaria_cumprida |-> JInt(20)]),
     JObj([carga_horaria_total |-> JStr("40"), total_aulas |-> JInt(-2),
           faltas |-> JInt(1)]),
     JObj([carga_horaria |-> JStr("N/A")])}

\* how many grade records one period's report holds
MaxRecords == 1

RECURSIVE SeqsUpTo(_, _)
SeqsUpTo(S, n) ==
    IF n = 0
    THEN {<<>>}
    ELSE LET shorter == SeqsUpTo(S, n - 1)
         IN  shorter \cup {Append(q, x) : q \in shorter, x \in S}

BoletimOutcomes ==
    {Outcome("badjson", JNull), Outcome("ok", JObj([detail |-> JStr("x")]))}
    \cup {Outcome("ok", JList(q)) : q \in SeqsUpTo(RouteRecords, MaxRecords)}

\* the query arguments of /boletim; ano is None when missing or no integer
NoArgs == [ano |-> JNull, periodo |-> JNull]

BoletimArgs ==
    {NoArgs, [ano |-> JInt(0), periodo |-> JNull], [ano |-> JInt(2023), periodo |-> JNull],
     [ano |-> JInt(2023), periodo |-> JInt(2)]}

Handled(route, args, ok, res) ==
    [route |-> route, sess |-> session, args |-> args, ok |-> ok,
     response |-> res.response, gets |-> res.gets, ctx |-> res.ctx]

Init ==
    /\ session = NoToken
    /\ lastEvent = "none"
    /\ req = Idle
    /\ cIn = Idle /\ cOut = Idle /\ nIn = Idle /\ nOut = Idle

Index ==
    /\ req = Idle
    /\ \E oInject \in UserOutcomes :
           req' = Handled("index", NoArgs, TRUE, IndexResult(session, oInject))
    /\ UNCHANGED <<session, lastEvent, cIn, cOut, nIn, nOut>>

Login ==
    /\ req = Idle
    /\ req' = Handled("login", NoArgs, TRUE, LoginResult)
    /\ UNCHANGED <<session, lastEvent, cIn, cOut, nIn, nOut>>

\* /login/authorized when authorize_access_token returns tok
AuthorizeOk ==
    /\ req = Idle
    /\ \E tok \in Tokens :
           /\ session' = AuthorizeSession(session, TRUE, tok)
           /\ req' = [Handled("authorize", NoArgs, TRUE, AuthorizeResult(TRUE))
                        EXCEPT !.ctx = [page |-> "none", token |-> tok]]
    /\ lastEvent' = "authorize"
    /\ UNCHANGED <<cIn, cOut, nIn, nOut>>

\* /login/authorized when authorize_access_token raises
AuthorizeFail ==
    /\ req = Idle
    /\ \E tok \in Tokens : session' = AuthorizeSession(session, FALSE, tok)
    /\ req' = Handled("authorize", NoArgs, FALSE, AuthorizeResult(FALSE))
    /\ UNCHANGED <<lastEvent, cIn, cOut, nIn, nOut>>

Logout ==
    /\ req = Idle
    /\ session' = LogoutSession(session)
    /\ req' = Handled("logout", NoArgs, TRUE, LogoutResult)
    /\ lastEvent' = "logout"
    /\ UNCHANGED <<cIn, cOut, nIn, nOut>>

Perfil ==
    /\ req = Idle
    /\ \E oUser \in UserOutcomes, oCursos \in CursosOutcomes, oInject \in UserOutcomes :
           req' = Handled("perfil", NoArgs, TRUE,
                          PerfilResult(session, oUser, oCursos, oInject))
    /\ UNCHANGED <<session, lastEvent, cIn, cOut, nIn, nOut>>

Boletim ==
    /\ req = Idle
    /\ \E args \in BoletimArgs, oPeriods \in PeriodsOutcomes,
          oP1 \in BoletimOutcomes, oP2 \in BoletimOutcomes, oInject \in UserOutcomes :
           req' = Handled("boletim", args, TRUE,
                          BoletimResult(session, args, oPeriods, oP1, oP2, oInject))
    /\ UNCHANGED <<session, lastEvent, cIn, cOut, nIn, nOut>>

\* the response leaves; the server keeps nothing of the request but the session
Reply ==
    /\ req # Idle
    /\ req' = Idle
    /\ UNCHANGED <<session, lastEvent, cIn, cOut, nIn, nOut>>

Next ==
    \/ Index
    \/ Login
    \/ AuthorizeOk
    \/ AuthorizeFail
    \/ Logout
    \/ Perfil
    \/ Boletim
    \/ Reply

Spec == Init /\ [][Next]_vars

(***************************************************************************)
(* Properties of make_suap_request (SpecClient).                          *)
(***************************************************************************)
\* C1: with a token stored, whatever its shape, make_suap_request raises
\* nothing and returns the parsed body or None.
C1_NeverRaises ==
    (cOut.state = "done" /\ IsLoggedIn(cIn.sess))
        => /\ ~cOut.res.raised
           /\ cOut.res.val \in {JNull, cIn.outcome.body}

(***************************************************************************)
(* Properties of fetch_boletim (SpecNorm).                                *)
(***************************************************************************)
CanonicalFields ==
    {"carga_horaria_normalizada", "faltas_normalizadas", "total_aulas_dadas",
     "notas", "media_final", "situacao"}

\* the upstream answered 200 with a list of dicts
IsGradeList(o) ==
    /\ o.kind = "ok"
    /\ o.body.t = "list"
    /\ \A i \in 1..Len(o.body.items) : o.body.items[i].t = "obj"

\* fetch_boletim returned the normalization of a one-record report
NormalizedOne ==
    /\ nOut.state = "done"
    /\ IsGradeList(nIn.outcome)
    /\ Len(nIn.outcome.body.items) = 1
    /\ ~nOut.res.raised

RawOne == nIn.outcome.body.items[1].d

NormOne == nOut.res.val[1]

\* C2: on every list of grade records, whatever JSON value each candidate
\* field holds, fetch_boletim raises nothing and every returned record
\* carries the six canonical fields, the three counts as integers.
C2_NormalizationTotal ==
    (nOut.state = "done" /\ IsGradeList(nIn.outcome))
        => /\ ~nOut.res.raised
           /\ Len(nOut.res.val) = Len(nIn.outcome.body.items)
           /\ \A i \in 1..Len(nOut.res.val) :
                  /\ CanonicalFields \subseteq DOMAIN nOut.res.val[i]
                  /\ nOut.res.val[i].carga_horaria_normalizada \in Int
                  /\ nOut.res.val[i].faltas_normalizadas \in Int
                  /\ nOut.res.val[i].total_aulas_dadas \in Int

\* the candidate names under which d provides a value (null is none)
PresentIn(d, names) == {k \in names : k \in DOMAIN d /\ d[k] # JNull}

TheOne(S) == CHOOSE k \in S : TRUE

\* a count: the one provided value as an integer (where it has one), 0 when
\* no candidate name is present
CountFromOne(d, names, normalized) ==
    LET P == PresentIn(d, names)
    IN  /\ (Cardinality(P) = 1 /\ ~PyInt(d[TheOne(P)]).raised)
               => normalized = PyInt(d[TheOne(P)]).n
        /\ P = {} => normalized = 0

\* a text field: the one provided value, the placeholder exactly when no
\* candidate name is present
ValueFromOne(d, names, normalized, placeholder) ==
    LET P == PresentIn(d, names)
    IN  /\ Cardinality(P) = 1 => normalized = d[TheOne(P)]
        /\ P = {} => normalized = placeholder
        /\ (normalized = placeholder /\ P # {})
               => \E k \in P : d[k] = placeholder

\* C3: a field provided under exactly one candidate name is normalized to
\* that value, 0, 0.0 and "" included; the default only when none is present.
C3_FirstPresent ==
    NormalizedOne
        => /\ CountFromOne(RawOne, {"carga_horaria", "carga_horaria_total"},
                           NormOne.carga_horaria_normalizada)
           /\ CountFromOne(RawOne, {"numero_faltas", "faltas"},
                           NormOne.faltas_normalizadas)
           /\ CountFromOne(RawOne, {"carga_horaria_cumprida", "quantidade_aulas",
                                    "total_aulas"},
                           NormOne.total_aulas_dadas)
           /\ ValueFromOne(RawOne, {"media_final", "media_final_disciplina"},
                           NormOne.media_final, JStr("-"))
           /\ ValueFromOne(RawOne, {"situacao"}, NormOne.situacao, JStr("Cursando"))

\* the stages whose field is present (a null is taken as absent)
StagesGraded(d) == {i \in 1..4 : NotaField(i) \in DOMAIN d /\ d[NotaField(i)] # JNull}

Increasing(notas) ==
    \A j, k \in 1..Len(notas) : j < k => notas[j].etapa[1] < notas[k].etapa[1]

\* C9 as stated: one entry per stage whose field is present, in increasing
\* order, the grade the inner "nota" of an object and else the raw scalar,
\* never null and never a whole object.
C9_SparseScalar ==
    NormalizedOne
        => /\ Len(NormOne.notas) = Cardinality(StagesGraded(RawOne))
           /\ Increasing(NormOne.notas)
           /\ \A k \in 1..Len(NormOne.notas) :
                  /\ NormOne.notas[k].etapa[1] \in StagesGraded(RawOne)
                  /\ NormOne.notas[k].nota.t \notin {"null", "obj"}

\* C9 amended: one entry per stage whose field is present and not null, in
\* increasing order and tagged with its stage; the grade is the value under
\* "nota" (null included) of an object that has that key, and else the raw
\* value itself (a scalar, or an object without that key).
C9_SparseNotNull ==
    NormalizedOne
        => /\ Len(NormOne.notas) = Cardinality(StagesGraded(RawOne))
           /\ Increasing(NormOne.notas)
           /\ \A k \in 1..Len(NormOne.notas) :
                  LET i == NormOne.notas[k].etapa[1]
                  IN  /\ NormOne.notas[k].etapa = EtapaLabel(i)
                      /\ i \in StagesGraded(RawOne)
                      /\ LET raw == RawOne[NotaField(i)]
                         IN  NormOne.notas[k].nota =
                                 IF raw.t = "obj" /\ "nota" \in DOMAIN raw.d
                                 THEN raw.d["nota"]
                                 ELSE raw

\* two stages graded, one of them by an object holding a null "nota"
C9_Witness ==
    /\ NormalizedOne
    /\ Len(NormOne.notas) = 2
    /\ NormOne.notas[1].nota = JNull
    /\ NormOne.notas[2].nota = JInt(20)
    /\ NormOne.notas[2].etapa = EtapaLabel(4)

(***************************************************************************)
(* Properties of the routes (Spec).                                       *)
(***************************************************************************)
Rendered(page) ==
    /\ req # Idle
    /\ req.response = [kind |-> "render", target |-> page]

\* the (year, term) pairs of the grade reports the request fetched, in order
BoletimGets ==
    LET e == [i \in 1..Len(req.gets) |-> req.gets[i].endpoint]
        b == SelectSeq(e, LAMBDA x : x.path = "boletim")
    IN  [i \in 1..Len(b) |-> <<b[i].ano, b[i].periodo>>]

PeriodPair(p) == <<p.d["ano_letivo"].n, p.d["periodo_letivo"].n>>

LexLeq(a, b) == a[1] < b[1] \/ (a[1] = b[1] /\ a[2] <= b[2])

\* the pair of the list that no pair of the list exceeds
GreatestPair(periods) ==
    CHOOSE a \in {PeriodPair(periods[i]) : i \in 1..Len(periods)} :
        \A i \in 1..Len(periods) : LexLeq(PeriodPair(periods[i]), a)

C5_NoUnhandledException == req # Idle => req.response.kind # "error"

\* C6 as stated: 100 when the classes-held total T is 0, and (T - F) / T * 100
\* for every other T.
C6_AttendanceUnlessZero ==
    Rendered("boletim.html")
        => LET T == req.ctx.vars.total_aulas_dadas
               F == req.ctx.vars.total_faltas
               q == req.ctx.vars.frequencia
           IN  /\ q.den # 0
               /\ T = 0 => q.num = 100 * q.den
               /\ T # 0 => q.num * T = (T - F) * 100 * q.den

\* C6 amended: 100 when T <= 0, and (T - F) / T * 100 for every T > 0.
C6_AttendanceUnlessPositive ==
    Rendered("boletim.html")
        => LET T == req.ctx.vars.total_aulas_dadas
               F == req.ctx.vars.total_faltas
               q == req.ctx.vars.frequencia
           IN  /\ q.den # 0
               /\ T <= 0 => q.num = 100 * q.den
               /\ T > 0 => q.num * T = (T - F) * 100 * q.den

\* 20 classes held, 5 absences: 75
C6_Witness ==
    /\ Rendered("boletim.html")
    /\ req.ctx.vars.total_aulas_dadas = 20
    /\ req.ctx.vars.total_faltas = 5
    /\ req.ctx.vars.frequencia.num = 75 * req.ctx.vars.frequencia.den

\* C7: with no token stored (at the start, after a logout, after a failed
\* callback with no token) /perfil and /boletim answer with the redirect to
\* login, and neither page is rendered unless the last handler to write or
\* remove the token was a successful callback.
C7_AuthenticationGate ==
    /\ IsLoggedIn(session) <=> lastEvent = "authorize"
    /\ (req # Idle /\ req.route \in {"perfil", "boletim"})
           => /\ ~IsLoggedIn(req.sess)
                     => req.response = [kind |-> "redirect", target |-> "login"]
              /\ req.response.kind = "render"
                     => (IsLoggedIn(req.sess) /\ lastEvent = "authorize")

\* /boletim asked after a logout
C7_Witness ==
    /\ req # Idle
    /\ req.route = "boletim"
    /\ lastEvent = "logout"
    /\ req.response = [kind |-> "redirect", target |-> "login"]

\* C8: with no token stored make_suap_request returns None and issues no
\* GET, and every GET of a request carries the token stored when it came.
C8_NoGetWithoutToken ==
    /\ ~IsLoggedIn(session)
           => \A e \in ClientEndpoints, o \in ClientOutcomes :
                  MakeSuapRequest(session, e, o)
                      = [raised |-> FALSE, val |-> JNull, gets |-> <<>>]
    /\ req # Idle
           => \A i \in 1..Len(req.gets) :
                  /\ IsLoggedIn(req.sess)
                  /\ req.gets[i].bearer = req.sess.id

\* the home page rendered after a logout, with no GET
C8_Witness ==
    /\ Rendered("index.html")
    /\ lastEvent = "logout"
    /\ session = NoToken
    /\ req.gets = <<>>

====
